---- MODULE Spec2Model ----
(***************************************************************************)
(* A model of pylint_ignore/ignorefile.py: the source line cache, the      *)
(* source anchor resolver, the ignorefile (catalog document) parser and    *)
(* serializer, the fuzzy matcher and the save path.                        *)
(*                                                                         *)
(* Python values are represented as follows.                               *)
(*   - A line of text is a record [ind, body, trail, nl, raw]: `ind`       *)
(*     leading blanks, `body` the text from its first to its last          *)
(*     non-blank character ("" for a blank line), `trail` trailing blanks, *)
(*     `nl` = 1 iff the line terminator is kept.  `raw` is None for such   *)
(*     a line; a text that is a whole rendered line of an ignorefile (what *)
(*     SOURCE_TEXT_RE captures when it runs over a line break) has `raw` = *)
(*     <<that line>> and the other fields zero.                            *)
(*   - A line of an ignorefile is a record whose field k tells its shape:  *)
(*     "header", "item", "fence", "ctx", "ellipsis", "blank" or "prose".   *)
(*   - None is the empty sequence and a present Optional value x is <<x>>. *)
(*   - A call that may raise returns [exc, val]: exc = "" on return.       *)
(*   - msg_id, msg_text, decimal numerals and the texts compared by        *)
(*     find_entry are sequences of character codes: 0..9 are the digits,   *)
(*     larger codes are letters, 45 is the minus sign.                     *)
(*   - A file system is [dir, data]: dir maps each name to an inode number *)
(*     (0: no such file), data[i] is the content of inode i.               *)
(***************************************************************************)
EXTENDS Integers, Sequences, FiniteSets, TLC

VARIABLES
    src,              \* the lines of the source file, as read_source_lines returns them
    old_source_line,  \* find_source_text_lineno: the text searched for
    old_lineno,       \* find_source_text_lineno: the line it used to be on
    resolved,         \* find_source_text_lineno: <<>> before the call, <<result>> after
    source_text,      \* read_source_text: <<>> before the call, <<the SourceText>> after
    SRC_CACHE,        \* _SRC_CACHE: the cached [path, obj] items, in insertion order
    reads,            \* how many times each path's file was opened and read
    ret,              \* read_source_lines: <<>> or <<[path, obj, hit]>> of the last call
    catalog,          \* a Catalog: the sequence of its [key, entry] items, in dict order
    search_key,       \* find_entry: the Key looked up
    found,            \* find_entry: <<>> before the call, <<result>> after
    fs,               \* the directory of the ignorefile: names, inodes and contents
    pc,               \* what the process using the ignorefile did last
    dumped,           \* the [cat, text] of every dumps call so far, in order
    edits,            \* how the ignorefile first loaded was edited by hand
    records,          \* _iter_entry_values: <<>> before the call, <<the dicts yielded>> after
    savers,           \* dump, step by step: each saving process's position
    reader            \* a process reading the ignorefile while it is saved

anchorVars == <<old_source_line, old_lineno, resolved, source_text>>
cacheVars == <<SRC_CACHE, reads, ret>>
findVars == <<search_key, found>>
docVars == <<fs, pc, dumped, edits, records>>
saveVars == <<savers, reader>>
vars == <<src, anchorVars, cacheVars, catalog, findVars, docVars, saveVars>>

None == <<>>
Some(x) == <<x>>

Return(v) == [exc |-> "", val |-> v]
Raise(e, v) == [exc |-> e, val |-> v]

Max(a, b) == IF a >= b THEN a ELSE b
Min(a, b) == IF a <= b THEN a ELSE b
Abs(a) == IF a >= 0 THEN a ELSE -a

(***************************************************************************)
(* Text lines                                                              *)
(***************************************************************************)
SrcLine(ind, body, trail) ==
    [ind |-> ind, body |-> body, trail |-> trail, nl |-> 1, raw |-> None]

EmptyText == [ind |-> 0, body |-> "", trail |-> 0, nl |-> 0, raw |-> None]

\* str.strip() is empty: nothing but white space (the terminator included)
IsBlank(line) == line.raw = None /\ line.body = ""

\* str.rstrip(): trailing white space and the terminator removed
Rstrip(line) ==
    IF IsBlank(line) THEN EmptyText
    ELSE [line EXCEPT !.trail = 0, !.nl = 0]

\* len(line) - len(line.lstrip()) of a source line; lstrip of a
\* blank line removes the terminator too
IndentLvl(line) ==
    IF IsBlank(line) THEN line.ind + line.trail + line.nl ELSE line.ind

\* line.lstrip().split()[0] of a non-blank source line
FirstToken(line) == line.body

(***************************************************************************)
(* find_source_text_lineno                                                 *)
(***************************************************************************)
SEARCH_OFFSETS == 100

IsMatchingLine(lines, line_idx, old_line) ==
    /\ 0 <= line_idx
    /\ line_idx < Len(lines)
    /\ Rstrip(lines[line_idx + 1]) = Rstrip(old_line)

\* The offsets of range(100) at which a line matches.
MatchingOffsets(lines, old_line, old_line_idx, signs) ==
    {offset \in 0..(SEARCH_OFFSETS - 1) :
        \E sign \in signs :
            IsMatchingLine(lines, old_line_idx + sign * offset, old_line)}

\* The loop returns at the first offset with a matching line.  Its inner
\* loop runs over the set {old_line_idx - offset, old_line_idx + offset},
\* whose iteration order Python leaves open: when both lines match, either
\* may be the one returned.  The result is the set of possible outcomes.
SearchFrom(lines, old_line, old_line_idx, signs) ==
    LET offsets == MatchingOffsets(lines, old_line, old_line_idx, signs)
    IN  IF offsets = {} THEN {Raise("ObsoleteEntry", 0)}
        ELSE LET first == CHOOSE o \in offsets : \A p \in offsets : o <= p
             IN  {Return(i + 1) :
                     i \in {j \in {old_line_idx + sign * first : sign \in signs} :
                               IsMatchingLine(lines, j, old_line)}}

\* find_source_text_lineno looking only at and below the old line
find_source_text_lineno_down(lines, old_line, lineno) ==
    SearchFrom(lines, old_line, lineno - 1, {1})

find_source_text_lineno(lines, old_line, lineno) ==
    SearchFrom(lines, old_line, lineno - 1, {-1, 1})

(***************************************************************************)
(* Key, Entry, Catalog                                                     *)
(***************************************************************************)
Key(msg_id, path, symbol, msg_text, source_line) ==
    [msg_id |-> msg_id, path |-> path, symbol |-> symbol,
     msg_text |-> msg_text, source_line |-> source_line]

Entry(msg_id, path, symbol, msg_text, author, date, srctxt) ==
    [msg_id |-> msg_id, path |-> path, symbol |-> symbol, msg_text |-> msg_text,
     author |-> author, date |-> date, srctxt |-> srctxt]

Item(key, entry) == [key |-> key, entry |-> entry]

CatalogKeys(cat) == [i \in 1..Len(cat) |-> cat[i].key]

HasKey(cat, key) == \E i \in 1..Len(cat) : cat[i].key = key

CatalogGet(cat, key) == cat[CHOOSE i \in 1..Len(cat) : cat[i].key = key].entry

\* catalog[key] = entry: a new key comes last, a known key keeps its place
CatalogSet(cat, key, entry) ==
    IF HasKey(cat, key)
    THEN [i \in 1..Len(cat) |-> IF cat[i].key = key THEN Item(key, entry) ELSE cat[i]]
    ELSE Append(cat, Item(key, entry))

(***************************************************************************)
(* find_entry                                                              *)
(***************************************************************************)
FUZZY_MATCH_MAX_EDIT_DISTANCE_ABS == 4
FUZZY_MATCH_MAX_EDIT_DISTANCE_PCT == 20

\* One row of the edit distance table: `prev` is the row of the first i - 1
\* characters of a (prev[j + 1] for the first j characters of b).  An entry is
\* reached by a deletion or a substitution into column k followed by j - k
\* insertions.
LevRow(prev, ca, b, i) ==
    LET t == [k \in 0..Len(b) |->
                 IF k = 0 THEN i
                 ELSE Min(prev[k + 1] + 1, prev[k] + (IF ca = b[k] THEN 0 ELSE 1))]
    IN  [j \in 1..(Len(b) + 1) |->
            LET via == {t[k] + (j - 1 - k) : k \in 0..(j - 1)}
            IN  CHOOSE d \in via : \A e \in via : d <= e]

RECURSIVE LevRows(_, _, _, _)
LevRows(a, b, i, prev) ==
    IF i > Len(a) THEN prev[Len(b) + 1]
    ELSE LET row == LevRow(prev, a[i], b, i)
         IN  IF Len(row) > 0 THEN LevRows(a, b, i + 1, row) ELSE 0

\* the number of insertions, deletions and substitutions that turn a into b
EditDistance(a, b) == LevRows(a, b, 1, [j \in 1..(Len(b) + 1) |-> j - 1])

\* A text is a run of a's followed by a run of b's.
AB(n, m) == [i \in 1..(n + m) |-> IF i <= n THEN 1 ELSE 2]

\* the texts of the keys that find_entry is tried on
FindStrings ==
    {AB(0, 0), AB(5, 0), AB(4, 1), AB(3, 2), AB(4, 0), AB(3, 1),
     AB(20, 0), AB(16, 4), AB(25, 0), AB(20, 5)}

\* the distances of these texts, computed once (@@ makes TLC tabulate the
\* function instead of evaluating its body at every application)
KnownDistances ==
    [p \in FindStrings \X FindStrings |-> EditDistance(p[1], p[2])] @@ <<>>

\* pylev.levenshtein
levenshtein(a, b) ==
    IF <<a, b>> \in DOMAIN KnownDistances THEN KnownDistances[<<a, b>>]
    ELSE EditDistance(a, b)

\* 100 * dist / longest > FUZZY_MATCH_MAX_EDIT_DISTANCE_PCT, for longest > 0
ExceedsPct(dist, longest) == 100 * dist > FUZZY_MATCH_MAX_EDIT_DISTANCE_PCT * longest

\* the loop over candidate_keys without the percentage test
RECURSIVE FuzzyMatchesAbsOnly(_, _, _, _)
FuzzyMatchesAbsOnly(cat, candidate_keys, skey, matches) ==
    IF candidate_keys = <<>> THEN Return(matches)
    ELSE LET key == Head(candidate_keys)
             rest == Tail(candidate_keys)
             msg_text_dist == levenshtein(key.msg_text, skey.msg_text)
             src_line_dist == levenshtein(key.source_line, skey.source_line)
         IN  IF msg_text_dist > FUZZY_MATCH_MAX_EDIT_DISTANCE_ABS
                THEN FuzzyMatchesAbsOnly(cat, rest, skey, matches)
             ELSE IF src_line_dist > FUZZY_MATCH_MAX_EDIT_DISTANCE_ABS
                THEN FuzzyMatchesAbsOnly(cat, rest, skey, matches)
             ELSE FuzzyMatchesAbsOnly(cat, rest, skey,
                                      Append(matches, CatalogGet(cat, key)))

\* the loop over candidate_keys: the matches, or the ZeroDivisionError of a
\* percentage whose two strings are both empty
RECURSIVE FuzzyMatches(_, _, _, _)
FuzzyMatches(cat, candidate_keys, skey, matches) ==
    IF candidate_keys = <<>> THEN Return(matches)
    ELSE LET key == Head(candidate_keys)
             rest == Tail(candidate_keys)
             msg_text_dist == levenshtein(key.msg_text, skey.msg_text)
             src_line_dist == levenshtein(key.source_line, skey.source_line)
             msg_text_longest == Max(Len(key.msg_text), Len(skey.msg_text))
             src_line_longest == Max(Len(key.source_line), Len(skey.source_line))
         IN  IF msg_text_dist > FUZZY_MATCH_MAX_EDIT_DISTANCE_ABS
                THEN FuzzyMatches(cat, rest, skey, matches)
             ELSE IF src_line_dist > FUZZY_MATCH_MAX_EDIT_DISTANCE_ABS
                THEN FuzzyMatches(cat, rest, skey, matches)
             ELSE IF msg_text_longest = 0 \/ src_line_longest = 0
                THEN Raise("ZeroDivisionError", <<>>)
             ELSE IF ExceedsPct(msg_text_dist, msg_text_longest)
                THEN FuzzyMatches(cat, rest, skey, matches)
             ELSE IF ExceedsPct(src_line_dist, src_line_longest)
                THEN FuzzyMatches(cat, rest, skey, matches)
             ELSE FuzzyMatches(cat, rest, skey, Append(matches, CatalogGet(cat, key)))

CandidateKeys(cat, skey) ==
    SelectSeq(CatalogKeys(cat),
              LAMBDA key : /\ skey.msg_id = key.msg_id
                           /\ skey.path = key.path
                           /\ skey.symbol = key.symbol)

\* find_entry with only the absolute bound on the edit distances
find_entry_abs_only(cat, skey) ==
    IF HasKey(cat, skey) THEN Return(Some(CatalogGet(cat, skey)))
    ELSE LET m == FuzzyMatchesAbsOnly(cat, CandidateKeys(cat, skey), skey, <<>>)
         IN  IF Len(m.val) = 1 THEN Return(Some(m.val[1])) ELSE Return(None)

\* The result is Return(<<entry>>), Return(None) or a raised exception.
find_entry(cat, skey) ==
    IF HasKey(cat, skey) THEN Return(Some(CatalogGet(cat, skey)))
    ELSE LET m == FuzzyMatches(cat, CandidateKeys(cat, skey), skey, <<>>)
         IN  IF m.exc # "" THEN m
             ELSE IF Len(m.val) = 1 THEN Return(Some(m.val[1]))
             ELSE Return(None)

FindIdle == search_key = <<>> /\ found = None

AnchorIdle ==
    old_source_line = EmptyText /\ old_lineno = 0 /\ resolved = None /\ source_text = None

(***************************************************************************)
(* read_source_lines and _SRC_CACHE                                        *)
(*                                                                         *)
(* A list object is [id, lines]: every read of a file builds a new list,   *)
(* which gets the next id, so that two reads of one file give two objects  *)
(* with equal lines.                                                       *)
(***************************************************************************)
MaxCalls == 5

Paths == {"a.py", "b.py", "c.py", "d.py"}

\* What each file holds (the files do not change during a run).  The last
\* line of b.py has no line terminator.
FileLines(path) ==
    CASE path = "a.py" ->
            << SrcLine(0, "class", 0), SrcLine(4, "def", 0), SrcLine(8, "x", 0),
               SrcLine(0, "", 0),      SrcLine(8, "y", 1),   SrcLine(8, "x", 0),
               SrcLine(4, "", 0),      SrcLine(0, "z", 0),   SrcLine(0, "def", 0),
               SrcLine(4, "x", 0),     SrcLine(4, "y", 0),   SrcLine(0, "", 0) >>
      [] path = "b.py" -> <<SrcLine(0, "x", 0), [SrcLine(0, "y", 0) EXCEPT !.nl = 0]>>
      [] path = "c.py" -> <<SrcLine(0, "x", 0), SrcLine(0, "y", 0)>>
      [] OTHER         -> <<>>

CachedPaths(cache) == {cache[i].path : i \in 1..Len(cache)}

CacheGet(cache, path) ==
    cache[CHOOSE i \in 1..Len(cache) : cache[i].path = path].obj

\* popitem that removes nothing
PopItem_nothing(cache) == {cache}

\* _SRC_CACHE.popitem(): removes one item; which one is not specified for the
\* dict of every Python this code runs on (the last one inserted since 3.7).
PopItem(cache) ==
    {[j \in 1..(Len(cache) - 1) |-> IF j < i THEN cache[j] ELSE cache[j + 1]] :
        i \in 1..Len(cache)}

\* the cache, the read counts and the last call, as one value
CacheState == [cache |-> SRC_CACHE, reads |-> reads, ret |-> ret]

NCallsOf(st) == IF st.ret = None THEN 0 ELSE st.ret[1].n

\* the number of calls made so far
NCalls == NCallsOf(CacheState)

NewObj(st, path) ==
    [id |-> 1 + st.reads["a.py"] + st.reads["b.py"] + st.reads["c.py"] + st.reads["d.py"],
     lines |-> FileLines(path)]

\* read_source_lines(path) called in state st: the states it may end in
ReadSourceLines(st, path) ==
    IF path \notin CachedPaths(st.cache)
    THEN {[cache |-> Append(cache, [path |-> path, obj |-> NewObj(st, path)]),
           reads |-> [st.reads EXCEPT ![path] = @ + 1],
           ret   |-> Some([path |-> path, obj |-> NewObj(st, path), hit |-> FALSE,
                           n |-> NCallsOf(st) + 1])] :
             cache \in (IF Len(st.cache) > 2 THEN PopItem(st.cache) ELSE {st.cache})}
    ELSE {[st EXCEPT !.ret = Some([path |-> path, obj |-> CacheGet(st.cache, path),
                                   hit |-> TRUE, n |-> NCallsOf(st) + 1])]}

\* read_source_lines without the membership test: the file is read and the
\* list rebuilt on every call.
read_source_lines_always(path) ==
    /\ LET obj == NewObj(CacheState, path)
           kept == SelectSeq(SRC_CACHE, LAMBDA it : it.path # path)
       IN  /\ SRC_CACHE' = Append(kept, [path |-> path, obj |-> obj])
           /\ reads' = [reads EXCEPT ![path] = @ + 1]
           /\ ret' = Some([path |-> path, obj |-> obj,
                           hit |-> path \in CachedPaths(SRC_CACHE),
                           n |-> NCalls + 1])

read_source_lines(path) ==
    \E st \in ReadSourceLines(CacheState, path) :
        /\ SRC_CACHE' = st.cache
        /\ reads' = st.reads
        /\ ret' = st.ret

\* the calls read_source_lines(p) for the paths p of a sequence, one after
\* the other, from state st: the states they may end in
RECURSIVE ReadAll(_, _)
ReadAll(st, paths) ==
    IF paths = <<>> THEN {st}
    ELSE UNION {ReadAll(st2, Tail(paths)) : st2 \in ReadSourceLines(st, Head(paths))}

CacheIdle == SRC_CACHE = <<>> /\ reads = [p \in Paths |-> 0] /\ ret = None

(***************************************************************************)
(* Strings of character codes                                              *)
(***************************************************************************)
IsDigit(c) == c \in 0..9

\* str(n)
RECURSIVE Str(_)
Str(n) ==
    IF n < 0 THEN <<45>> \o Str(-n)
    ELSE IF n < 10 THEN <<n>>
    ELSE Append(Str(n \div 10), n % 10)

\* int(s) of a string of digits
RECURSIVE ParseInt(_)
ParseInt(s) ==
    IF Len(s) = 1 THEN s[1]
    ELSE 10 * ParseInt(SubSeq(s, 1, Len(s) - 1)) + s[Len(s)]

\* a < b for two str: the first character that differs decides, and a proper
\* prefix comes first
StrLess(a, b) ==
    \E k \in 1..Len(b) :
        /\ \A j \in 1..(k - 1) : j <= Len(a) /\ a[j] = b[j]
        /\ IF k > Len(a) THEN TRUE ELSE a[k] < b[k]

(***************************************************************************)
(* read_source_text                                                        *)
(***************************************************************************)
CONTEXT_LINES == 2

SourceText(new_lineno, lineno, source_line, text, start_idx, end_idx, def_line_idx, def_line) ==
    [new_lineno |-> new_lineno, old_lineno |-> lineno, source_line |-> source_line,
     text |-> text, start_idx |-> start_idx, end_idx |-> end_idx,
     def_line_idx |-> def_line_idx, def_line |-> def_line]

\* The while loop of read_source_text, from maybe_def_idx upwards: the index
\* of the definition line to record, if any.
RECURSIVE DefLineIdx(_, _, _, _)
DefLineIdx(lines, maybe_def_idx, line_indent_lvl, start_idx) ==
    IF ~(maybe_def_idx > 0) THEN None
    ELSE LET line_text == lines[maybe_def_idx + 1]
             indent_lvl == IndentLvl(line_text)
         IN  IF /\ ~IsBlank(line_text)
                /\ indent_lvl < line_indent_lvl
                /\ FirstToken(line_text) \in {"def", "class"}
             THEN IF 0 <= maybe_def_idx /\ maybe_def_idx < start_idx
                  THEN Some(maybe_def_idx)
                  ELSE None
             ELSE DefLineIdx(lines, maybe_def_idx - 1, line_indent_lvl, start_idx)

\* `text` is kept as the list of the lines that are joined
read_source_text(lines, new_lineno, lineno) ==
    LET line_idx == new_lineno - 1
        line_indent_lvl == IndentLvl(lines[line_idx + 1])
        start_idx == Max(0, line_idx - CONTEXT_LINES)
        end_idx == Min(Len(lines), line_idx + CONTEXT_LINES + 1)
        src_lines == SubSeq(lines, start_idx + 1, end_idx)
        def_line_idx == DefLineIdx(lines, line_idx, line_indent_lvl, start_idx)
        def_line == IF def_line_idx = None THEN None
                    ELSE Some(lines[def_line_idx[1] + 1])
    IN  SourceText(new_lineno, lineno, lines[line_idx + 1], src_lines,
                   start_idx, end_idx, def_line_idx, def_line)

(***************************************************************************)
(* The lines of an ignorefile                                              *)
(***************************************************************************)
\* "## File {path} - Line {lineno} - {msg_id} ({symbol})"
HeaderLine(path, lineno, msg_id, symbol) ==
    [k |-> "header", path |-> path, lineno |-> lineno, msg_id |-> msg_id,
     symbol |-> symbol]

\* "- `{key}: {value}`", the key padded as in ENTRY_TEMPLATE
ItemLine(key, value) == [k |-> "item", key |-> key, value |-> value]

\* "```"
FenceLine == [k |-> "fence"]

\* "> {lineno:>pad}:{text}" if mark, else "  {lineno:>pad}:{text}", where the
\* text is empty (None) or a blank followed by a line of source
CtxLine(mark, lineno, pad, text) ==
    [k |-> "ctx", mark |-> mark, lineno |-> lineno, pad |-> pad, text |-> text]

\* "  ..."
EllipsisLine == [k |-> "ellipsis"]

BlankLine == [k |-> "blank"]

\* a line of running text (n tells the lines apart)
ProseLine(n) == [k |-> "prose", n |-> n]

\* The 20 lines of the header: all are running text or blank.
IGNOREFILE_HEADER ==
    [i \in 1..20 |-> IF i \in {2, 4, 7, 10, 12, 20} THEN BlankLine ELSE ProseLine(i)]

\* str.splitlines() of the text of a SourceText: the lines without terminator
SplitLines(text) == [i \in 1..Len(text) |-> [text[i] EXCEPT !.nl = 0]]

(***************************************************************************)
(* _dumps_entry and dumps                                                  *)
(***************************************************************************)
\* the lines of ctx_src_text for a SourceText
CtxSrcText(srctxt) ==
    LET lineno == srctxt.new_lineno
        last_ctx_lineno == srctxt.end_idx + 1
        padding_size == Len(Str(last_ctx_lineno))
        \* a present def_line is a non-empty str; an index is true unless 0
        has_def == /\ srctxt.def_line # None
                   /\ srctxt.def_line_idx # None
                   /\ srctxt.def_line_idx[1] # 0
        def_lineno == srctxt.def_line_idx[1] + 1
        def_lines ==
            IF ~has_def THEN <<>>
            ELSE <<CtxLine(FALSE, Str(def_lineno), padding_size,
                           Some(Rstrip(srctxt.def_line[1])))>>
                 \o (IF def_lineno + CONTEXT_LINES < srctxt.new_lineno
                     THEN <<EllipsisLine>> ELSE <<>>)
        lines == SplitLines(srctxt.text)
        ctx_lines ==
            [i \in 1..Len(lines) |->
                LET offset == i - 1
                    src_lineno == srctxt.start_idx + offset + 1
                    padded_line == IF ~IsBlank(lines[i]) THEN Some(lines[i]) ELSE None
                IN  CtxLine(lineno = src_lineno, Str(src_lineno), padding_size,
                            padded_line)]
    IN  def_lines \o ctx_lines

\* ENTRY_TEMPLATE filled in, without its leading line break
_dumps_entry(entry) ==
    LET srctxt == entry.srctxt
        lineno == IF srctxt = None THEN -1 ELSE srctxt[1].new_lineno
        \* an empty ctx_src_text still makes one (empty) line of the template
        ctx_src_text == IF srctxt = None THEN <<BlankLine>> ELSE CtxSrcText(srctxt[1])
    IN  << HeaderLine(entry.path, Str(lineno), entry.msg_id, entry.symbol),
           BlankLine,
           ItemLine("message", entry.msg_text),
           ItemLine("author", entry.author),
           ItemLine("date", entry.date),
           BlankLine,
           FenceLine >>
        \o ctx_src_text
        \o <<FenceLine, BlankLine, BlankLine>>

\* the key of entries.sort: (e.msg_id, e.srctxt and e.srctxt.new_lineno,
\* e.msg_text), compared as Python compares tuples; the entries sorted all
\* have a SourceText
SortKeyLess(e1, e2) ==
    \/ StrLess(e1.msg_id, e2.msg_id)
    \/ /\ e1.msg_id = e2.msg_id
       /\ \/ e1.srctxt[1].new_lineno < e2.srctxt[1].new_lineno
          \/ /\ e1.srctxt[1].new_lineno = e2.srctxt[1].new_lineno
             /\ StrLess(e1.msg_text, e2.msg_text)

\* e put into the sorted list `sorted`, after every entry that is not larger
Insert(sorted, e) ==
    LET before == {i \in 1..Len(sorted) : ~SortKeyLess(e, sorted[i])}
        n == Cardinality(before)
    IN  SubSeq(sorted, 1, n) \o <<e>> \o SubSeq(sorted, n + 1, Len(sorted))

\* list.sort: a stable sort
RECURSIVE Sort(_, _)
Sort(entries, sorted) ==
    IF entries = <<>> THEN sorted
    ELSE Sort(Tail(entries), Insert(sorted, Head(entries)))

\* a NamedTuple with fields is true, None is false
Entries(cat) ==
    LET values == [i \in 1..Len(cat) |-> cat[i].entry]
    IN  SelectSeq(values, LAMBDA e : e.srctxt # None)

RECURSIVE Join(_)
Join(chunks) == IF chunks = <<>> THEN <<>> ELSE Head(chunks) \o Join(Tail(chunks))

\* dumps that renders the entries in the order of the catalog
dumps_unsorted(cat) ==
    LET entries == Entries(cat)
    IN  IGNOREFILE_HEADER \o Join([i \in 1..Len(entries) |-> _dumps_entry(entries[i])])

dumps(cat) ==
    LET entries == Sort(Entries(cat), <<>>)
    IN  IGNOREFILE_HEADER \o Join([i \in 1..Len(entries) |-> _dumps_entry(entries[i])])

(***************************************************************************)
(* _iter_entry_values                                                      *)
(*                                                                         *)
(* An entry_vals dict is a function from its keys to their values.         *)
(***************************************************************************)
EmptyDict == <<>>

\* d[k] = v
DictSet(d, k, v) == (k :> v) @@ d

\* line.startswith("```")
StartsWithFence(line) == line.k = "fence"

\* next_line.strip() == fence
IsCloseFence(line) == line.k = "fence"

\* ENTRY_HEADER_RE.match(line): its groupdict, or None
EntryHeader(line) ==
    IF /\ line.k = "header"
       /\ Len(line.lineno) >= 1
       /\ \A i \in 1..Len(line.lineno) : IsDigit(line.lineno[i])
       /\ Len(line.msg_id) >= 2
       /\ \A i \in 2..Len(line.msg_id) : IsDigit(line.msg_id[i])
    THEN Some([path |-> line.path, lineno |-> line.lineno, msg_id |-> line.msg_id,
               symbol |-> line.symbol])
    ELSE None

\* LIST_ITEM_RE.match(line): its groups key and value, or None
ListItem(line) ==
    IF line.k = "item" /\ line.key \in {"message", "author", "date"}
    THEN Some([key |-> line.key, value |-> line.value])
    ELSE None

\* The loop does nothing for a line that is no fence, header or list item:
\* the index of the first line from i on that it acts on (Len(lines) + 1 if
\* there is none).
NextLine(lines, i) ==
    LET idx == {j \in i..Len(lines) :
                   \/ StartsWithFence(lines[j])
                   \/ EntryHeader(lines[j]) # None
                   \/ ListItem(lines[j]) # None}
    IN  IF idx = {} THEN Len(lines) + 1
        ELSE CHOOSE j \in idx : \A j2 \in idx : j <= j2

\* The index of the line at which _parse_ctx_src_text breaks when the fence
\* was read at index i; 0 if next(lines) raises StopIteration first.
CloseFenceIdx(lines, i) ==
    LET idx == {j \in (i + 1)..Len(lines) : IsCloseFence(lines[j])}
    IN  IF idx = {} THEN 0
        ELSE CHOOSE j \in idx : \A j2 \in idx : j <= j2

\* the str returned for the fence at index i that is closed at index close,
\* as the list of its lines: fence + "\n", then the lines consumed
_parse_ctx_src_text(lines, i, close) == <<FenceLine>> \o SubSeq(lines, i + 1, close)

\* The dicts yielded: `yielded` so far, the lines from index `from` on still
\* to be read.
RECURSIVE IterEntryValues(_, _, _, _)
IterEntryValues(lines, from, entry_vals, yielded) ==
    LET i == NextLine(lines, from)
        \* after the loop: yield last entry
        finally == IF "msg_id" \in DOMAIN entry_vals
                   THEN Append(yielded, entry_vals) ELSE yielded
    IN  IF i > Len(lines) THEN finally
        ELSE IF StartsWithFence(lines[i])
        THEN LET close == CloseFenceIdx(lines, i)
             IN  IF close = 0 THEN finally
                 ELSE IterEntryValues(
                          lines, close + 1,
                          DictSet(entry_vals, "ctx_src_text",
                                  _parse_ctx_src_text(lines, i, close)),
                          yielded)
        ELSE IF EntryHeader(lines[i]) # None
        THEN LET done == "msg_id" \in DOMAIN entry_vals
                 vals == IF done THEN EmptyDict ELSE entry_vals
             IN  IterEntryValues(
                     lines, i + 1,
                     EntryHeader(lines[i])[1]
                         @@ DictSet(vals, "ignorefile_lineno", Str(i)),
                     IF done THEN Append(yielded, entry_vals) ELSE yielded)
        ELSE LET list_item == ListItem(lines[i])[1]
             IN  IterEntryValues(lines, i + 1,
                                 DictSet(entry_vals, list_item.key, list_item.value),
                                 yielded)

_iter_entry_values(lines) == IterEntryValues(lines, 1, EmptyDict, <<>>)

(***************************************************************************)
(* SOURCE_TEXT_RE.match(ctx_src_text)                                      *)
(***************************************************************************)
\* The pattern is matched line by line.  L is the text as its lines, L[1]
\* the opening fence.  A position p stands for "in front of line p": after
\* the text of the line before, with its line break consumed or not, which
\* makes no difference to what follows, since every part of the pattern
\* begins with optional or required white space.  The dot does not match a
\* line break but \s does: after "{lineno}:" with no text, \s (or \s?) takes
\* the line break and the .* after it the whole next line.  The texts of
\* source lines are taken not to look like pieces of rendered lines, so a .*
\* that gives back part of a line never leads to a match.

\* \s* or \s+ from in front of line p: blank lines are white space
Skip(L, p) ==
    LET idx == {q \in p..Len(L) : L[q].k # "blank"}
    IN  IF idx = {} THEN Len(L) + 1
        ELSE CHOOSE q \in idx : \A q2 \in idx : q <= q2

IsCtx(L, q, mark) ==
    IF q <= Len(L) THEN (IF L[q].k = "ctx" THEN L[q].mark = mark ELSE FALSE)
    ELSE FALSE

\* the text of a whole line of the document, as .* captures it
RawText(line) ==
    IF line.k = "blank" THEN EmptyText ELSE [EmptyText EXCEPT !.raw = Some(line)]

\* \s+\d+:\s?.* (and \s+(\d+):\s(.*)) tried in front of line p: where the
\* match may end, what is tried first coming first
CtxEnds(L, p) ==
    LET q == Skip(L, p)
    IN  IF ~IsCtx(L, q, FALSE) THEN <<>>
        ELSE IF L[q].text = None /\ q + 1 <= Len(L) THEN <<q + 2, q + 1>>
        ELSE <<q + 1>>

\* \s+\.\.\.
EllipsisEnds(L, p) ==
    LET q == Skip(L, p)
    IN  IF q > Len(L) THEN <<>>
        ELSE IF L[q].k = "ellipsis" THEN <<q + 1>>
        ELSE <<>>

\* ((?:\s+(?P<def_lineno>\d+):\s(?P<def_line>.*))?\s+\.\.\.)?
DefEnds(L, p) ==
    LET with_def == CtxEnds(L, p)
    IN  Join([i \in 1..Len(with_def) |-> EllipsisEnds(L, with_def[i])])
        \o EllipsisEnds(L, p)
        \o <<p>>

\* \s*\>\s+(?P<source_lineno>\d+):\s(?P<source_line>.*): where the match may
\* end, and the source_line captured
AnchorEnds(L, p) ==
    LET q == Skip(L, p)
    IN  IF ~IsCtx(L, q, TRUE) THEN <<>>
        ELSE IF L[q].text # None
        THEN <<[p |-> q + 1, source_line |-> L[q].text]>>
        ELSE IF q + 1 <= Len(L)
        THEN << [p |-> q + 2, source_line |-> Some(RawText(L[q + 1]))],
                [p |-> q + 1, source_line |-> Some(EmptyText)] >>
        ELSE <<>>

\* The parts of the pattern after the opening fence, in order: 1 the group of
\* the definition line, 2 3 5 6 the optional context lines, 4 the anchor
\* line, 7 the closing fence.
PartEnds(L, part, p) ==
    IF part = 1
    THEN [i \in 1..Len(DefEnds(L, p)) |-> [p |-> DefEnds(L, p)[i], source_line |-> None]]
    ELSE IF part = 4 THEN AnchorEnds(L, p)
    ELSE [i \in 1..Len(CtxEnds(L, p)) |-> [p |-> CtxEnds(L, p)[i], source_line |-> None]]
         \o <<[p |-> p, source_line |-> None]>>

\* The match of the parts from `part` on, in front of line p: the first way
\* that leads to a match of the whole pattern.  None, or <<source_line>>.
RECURSIVE MatchFrom(_, _, _, _)
MatchFrom(L, part, p, source_line) ==
    IF part = 7
    THEN LET q == Skip(L, p)
         IN  IF q > Len(L) THEN None
             ELSE IF L[q].k = "fence" THEN source_line
             ELSE None
    ELSE LET ends == PartEnds(L, part, p)
             rest == [i \in 1..Len(ends) |->
                         MatchFrom(L, part + 1, ends[i].p,
                                   IF ends[i].source_line = None THEN source_line
                                   ELSE ends[i].source_line)] @@ <<>>
             ok == {i \in 1..Len(ends) : rest[i] # None}
         IN  IF ok = {} THEN None
             ELSE rest[CHOOSE i \in ok : \A j \in ok : i <= j]

\* SOURCE_TEXT_RE.match(ctx_src_text).group('source_line') as <<source_line>>,
\* or None if there is no match
SourceTextMatch(ctx_src_text) == MatchFrom(ctx_src_text, 1, 2, None)

(***************************************************************************)
(* _init_entry_item and load                                               *)
(***************************************************************************)
\* The first of the keys message, author, date that entry_vals lacks, if any.
MissingValue(entry_vals) ==
    IF "message" \notin DOMAIN entry_vals THEN Some("message")
    ELSE IF "author" \notin DOMAIN entry_vals THEN Some("author")
    ELSE IF "date" \notin DOMAIN entry_vals THEN Some("date")
    ELSE None

\* The outcomes of _init_entry_item(entry_vals): Return(<<[key, entry]>>), or
\* an exception raised.  There are several when find_source_text_lineno has.
_init_entry_item(entry_vals) ==
    IF "ctx_src_text" \notin DOMAIN entry_vals THEN {Raise("KeyError", None)}
    ELSE LET old_source_text_match == SourceTextMatch(entry_vals["ctx_src_text"])
         IN  IF old_source_text_match = None THEN {Raise("ObsoleteEntry", None)}
             ELSE LET path == entry_vals["path"]
                      lines == FileLines(path)
                      old_line == old_source_text_match[1]
                      lineno == ParseInt(entry_vals["lineno"])
                  IN  { LET srctxt ==
                                IF new_lineno.exc = ""
                                THEN Some(read_source_text(lines, new_lineno.val, lineno))
                                ELSE None
                            source_line == IF srctxt # None THEN srctxt[1].source_line
                                           ELSE old_line
                        IN  IF MissingValue(entry_vals) # None
                            THEN Raise("KeyError", None)
                            ELSE Return(Some(Item(
                                     Key(entry_vals["msg_id"], entry_vals["path"],
                                         entry_vals["symbol"], entry_vals["message"],
                                         source_line),
                                     Entry(entry_vals["msg_id"], entry_vals["path"],
                                           entry_vals["symbol"], entry_vals["message"],
                                           entry_vals["author"], entry_vals["date"],
                                           srctxt)))) :
                        new_lineno \in find_source_text_lineno(lines, old_line, lineno) }

\* The paths that _init_entry_item(entry_vals) calls read_source_lines for:
\* once in find_source_text_lineno, and once more in read_source_text if
\* that is reached.
InitEntryReads(entry_vals) ==
    IF "ctx_src_text" \notin DOMAIN entry_vals THEN <<>>
    ELSE LET old_source_text_match == SourceTextMatch(entry_vals["ctx_src_text"])
         IN  IF old_source_text_match = None THEN <<>>
             ELSE LET path == entry_vals["path"]
                      found_it ==
                         \E r \in find_source_text_lineno(
                                      FileLines(path), old_source_text_match[1],
                                      ParseInt(entry_vals["lineno"])) : r.exc = ""
                  IN  IF found_it THEN <<path, path>> ELSE <<path>>

\* The loop of load from the i-th dict on: the outcomes, Return(catalog) or
\* an exception that no except clause catches.
RECURSIVE LoadEntries(_, _, _)
LoadEntries(all_vals, i, cat) ==
    IF i > Len(all_vals) THEN {Return(cat)}
    ELSE UNION {
            IF item.exc = ""
            THEN LoadEntries(all_vals, i + 1,
                             CatalogSet(cat, item.val[1].key, item.val[1].entry))
            ELSE IF item.exc \in {"ObsoleteEntry", "KeyError", "ValueError"}
            THEN LoadEntries(all_vals, i + 1, cat)
            ELSE {item} :
            item \in _init_entry_item(all_vals[i]) }

\* load of the file whose content is `content`: None if there is no such file
load(content) ==
    IF content = None THEN {Return(<<>>)}
    ELSE LoadEntries(_iter_entry_values(content[1]), 1, <<>>)

\* the calls of read_source_lines that load makes, in order
LoadReads(content) ==
    IF content = None THEN <<>>
    ELSE LET all_vals == _iter_entry_values(content[1])
         IN  Join([i \in 1..Len(all_vals) |-> InitEntryReads(all_vals[i])])

(***************************************************************************)
(* Files, and dump                                                         *)
(***************************************************************************)
\* ignorefile_path
IgnorefilePath == "pylint-ignore.md"

\* the path of dump's temporary file, were it the ignorefile itself
tmp_path_in_place(path) == path

\* ignorefile_path.parent / (ignorefile_path.name + ".tmp")
tmp_path(path) == path \o ".tmp"

FileNames == {IgnorefilePath, IgnorefilePath \o ".tmp"}

NoFiles == [dir |-> [name \in FileNames |-> 0], data |-> <<>>]

\* path.exists()
Exists(files, name) == files.dir[name] # 0

\* the content of the file of that name: None if there is no such file
Content(files, name) ==
    IF Exists(files, name) THEN Some(files.data[files.dir[name]]) ELSE None

\* open(mode="w"): a file that exists is truncated, else it is created
OpenW(files, name) ==
    IF Exists(files, name)
    THEN [files EXCEPT !.data[files.dir[name]] = <<>>]
    ELSE [dir |-> [files.dir EXCEPT ![name] = Len(files.data) + 1],
          data |-> Append(files.data, <<>>)]

\* what a file holds where nothing was written, below something written
HoleLine == [k |-> "hole"]

\* a write of `chunk` at offset pos of an inode
WriteAt(files, inode, pos, chunk) ==
    LET old == files.data[inode]
        new == [i \in 1..Max(Len(old), pos + Len(chunk)) |->
                   IF pos < i /\ i <= pos + Len(chunk) THEN chunk[i - pos]
                   ELSE IF i <= Len(old) THEN old[i]
                   ELSE HoleLine]
    IN  [files EXCEPT !.data[inode] = new]

\* shutil.move(from, to) of a file to a name in its own directory: os.rename,
\* which replaces `to` in one step
Move(files, from, to) ==
    IF from = to THEN files
    ELSE [files EXCEPT !.dir = [files.dir EXCEPT ![to] = files.dir[from], ![from] = 0]]

\* dump run from its first to its last statement
dump(files, cat, path) ==
    LET ignorefile_text == dumps(cat)
        tmp == tmp_path(path)
        opened == OpenW(files, tmp)
        written == WriteAt(opened, opened.dir[tmp], 0, ignorefile_text)
    IN  Move(written, tmp, path)

Savers == {1, 2}

IdleSaver == [pc |-> "idle", cat |-> <<>>, text |-> <<>>, fd |-> 0, pos |-> 0]

IdleReader == [pc |-> "idle", fd |-> 0, pos |-> 0, seen |-> <<>>]

\* the edits that made the ignorefile: none when the program wrote it
NoEdits == [pre |-> "none", kinds |-> <<>>]

DocIdle == fs = NoFiles /\ pc = "" /\ dumped = <<>> /\ edits = NoEdits /\ records = None

SaveIdle == savers = [w \in Savers |-> IdleSaver] /\ reader = IdleReader

(***************************************************************************)
(* A run over an ignorefile: a catalog of acknowledged messages is dumped, *)
(* loaded and dumped again; or an ignorefile that was edited is loaded.    *)
(***************************************************************************)
MaxDumps == 2
MaxFindings == 2
MaxRecords == 3

\* The entry that acknowledges a message reported for a line of a file, with
\* the key that _init_entry_item gives such an entry.
Acknowledged(path, new_lineno, lineno, author) ==
    LET srctxt == read_source_text(FileLines(path), new_lineno, lineno)
    IN  Item(Key(<<12, 1>>, path, "sym", AB(2, 1), srctxt.source_line),
             Entry(<<12, 1>>, path, "sym", AB(2, 1), author, "date", Some(srctxt)))

\* the messages acknowledged: for any line of a.py and b.py, first seen on
\* that line or three lines further down
Findings ==
    {Acknowledged(f[1], f[2], f[3], "me") :
        f \in {g \in {"a.py", "b.py"} \X (1..12) \X (1..15) :
                  g[2] <= Len(FileLines(g[1])) /\ g[3] \in {g[2], g[2] + 3}}}

RECURSIVE CatalogOf(_)
CatalogOf(items) ==
    IF items = <<>> THEN <<>>
    ELSE LET last == items[Len(items)]
         IN  CatalogSet(CatalogOf(SubSeq(items, 1, Len(items) - 1)), last.key, last.entry)

\* The records of an edited ignorefile are those of these entries, each
\* edited in one of these ways.
RecordEntries ==
    << Acknowledged("a.py", 3, 3, "r1"),
       Acknowledged("a.py", 10, 10, "r2"),
       Acknowledged("b.py", 1, 1, "r3") >>

EditKinds ==
    {"ok", "moved", "stale", "no_message", "no_author", "no_date",
     "no_block", "bad_block", "unclosed"}

Preambles == {"none", "items", "block"}

\* the index of the last fence of the lines of a record
LastFence(lines) == CHOOSE i \in 1..Len(lines) :
    /\ lines[i].k = "fence"
    /\ \A j \in (i + 1)..Len(lines) : lines[j].k # "fence"

\* the lines of a record after the edit
Edited(lines, kind) ==
    CASE kind = "moved" ->
            [i \in 1..Len(lines) |->
                IF lines[i].k = "header"
                THEN [lines[i] EXCEPT !.lineno = Str(ParseInt(@) + 3)]
                ELSE lines[i]]
      [] kind = "stale" ->
            [i \in 1..Len(lines) |->
                IF IsCtx(lines, i, TRUE)
                THEN [lines[i] EXCEPT !.text = Some(Rstrip(SrcLine(0, "gone", 0)))]
                ELSE lines[i]]
      [] kind = "no_message" ->
            SelectSeq(lines, LAMBDA l : ~(l.k = "item" /\ l.key = "message"))
      [] kind = "no_author" ->
            SelectSeq(lines, LAMBDA l : ~(l.k = "item" /\ l.key = "author"))
      [] kind = "no_date" ->
            SelectSeq(lines, LAMBDA l : ~(l.k = "item" /\ l.key = "date"))
      [] kind = "no_block" ->
            SelectSeq(lines, LAMBDA l : l.k \notin {"fence", "ctx", "ellipsis"})
      [] kind = "bad_block" ->
            [i \in 1..Len(lines) |->
                IF IsCtx(lines, i, TRUE) THEN [lines[i] EXCEPT !.mark = FALSE]
                ELSE lines[i]]
      [] kind = "unclosed" ->
            SubSeq(lines, 1, LastFence(lines) - 1)
                \o SubSeq(lines, LastFence(lines) + 1, Len(lines))
      [] OTHER -> lines

\* what is put between the header of the ignorefile and its first record
PreambleLines(pre) ==
    CASE pre = "items" ->
            <<ItemLine("message", AB(1, 1)), ItemLine("author", "pre"),
              ItemLine("date", "pre"), BlankLine>>
      [] pre = "block" ->
            <<FenceLine, CtxLine(TRUE, Str(1), 1, Some(Rstrip(FileLines("b.py")[1]))),
              FenceLine, BlankLine>>
      [] OTHER -> <<>>

EditedIgnorefile(pre, kinds) ==
    IGNOREFILE_HEADER
        \o PreambleLines(pre)
        \o Join([i \in 1..Len(kinds) |->
                    Edited(_dumps_entry(RecordEntries[i].entry), kinds[i])])

\* a directory with the ignorefile only
OneFile(content) ==
    [dir |-> [name \in FileNames |-> IF name = IgnorefilePath THEN 1 ELSE 0],
     data |-> <<content>>]

IgnorefileInit ==
    /\ \/ /\ \E n \in 1..MaxFindings : \E items \in [1..n -> Findings] :
                catalog = CatalogOf(items)
          /\ fs = NoFiles
          /\ pc = "catalog"
          /\ edits = NoEdits
       \/ /\ \E n \in 1..MaxRecords : \E kinds \in [1..n -> EditKinds] :
             \E pre \in Preambles :
                /\ fs = OneFile(EditedIgnorefile(pre, kinds))
                /\ edits = [pre |-> pre, kinds |-> kinds]
          /\ catalog = <<>>
          /\ pc = "file"
    /\ dumped = <<>> /\ records = None
    /\ src = <<>> /\ AnchorIdle /\ CacheIdle /\ FindIdle /\ SaveIdle

\* dump(catalog, ignorefile_path)
Dump ==
    /\ pc = "catalog"
    /\ Len(dumped) < MaxDumps
    /\ fs' = dump(fs, catalog, IgnorefilePath)
    /\ dumped' = Append(dumped, [cat |-> catalog, text |-> dumps(catalog)])
    /\ pc' = "file"
    /\ UNCHANGED <<src, anchorVars, cacheVars, catalog, findVars, edits, records, saveVars>>

\* catalog = load(ignorefile_path)
Load ==
    /\ pc = "file"
    /\ \E loaded \in load(Content(fs, IgnorefilePath)) :
          IF loaded.exc = ""
          THEN catalog' = loaded.val /\ pc' = "catalog"
          ELSE catalog' = catalog /\ pc' = loaded.exc
    /\ \E st \in ReadAll(CacheState, LoadReads(Content(fs, IgnorefilePath))) :
          /\ SRC_CACHE' = st.cache
          /\ reads' = st.reads
          /\ ret' = st.ret
    /\ UNCHANGED <<src, anchorVars, findVars, fs, dumped, edits, records, saveVars>>

IgnorefileNext == Dump \/ Load

SpecIgnorefile == IgnorefileInit /\ [][IgnorefileNext]_vars

\* Two catalogs are equal as Python dicts: the same keys, and under each key
\* equal entries.
SameCatalog(c1, c2) ==
    /\ {c1[i].key : i \in 1..Len(c1)} = {c2[i].key : i \in 1..Len(c2)}
    /\ \A i \in 1..Len(c1) :
          HasKey(c2, c1[i].key) => CatalogGet(c2, c1[i].key) = c1[i].entry

\* C1: round trip.  For a catalog whose entries all carry a SourceText
\* (whatever their old_lineno and new_lineno), with the source files
\* unchanged, dump followed by load yields a catalog equal to the input: the
\* same keys, and under each key an entry equal in every field, the fields of
\* its SourceText included.
C1_RoundTrip ==
    (/\ pc = "catalog"
     /\ dumped # <<>>
     /\ \A i \in 1..Len(dumped[Len(dumped)].cat) :
           dumped[Len(dumped)].cat[i].entry.srctxt # None)
        => SameCatalog(catalog, dumped[Len(dumped)].cat)

\* C2: idempotence of serialization.  With the source files unchanged, the
\* text of dumps(catalog) written to a file, loaded, and dumped again is
\* byte-identical to the first text.
C2_DumpsIdempotent ==
    Len(dumped) = 2 => dumped[2].text = dumped[1].text

\* the records of the edited ignorefile that were edited in one of `kinds`
RecordsOfKind(kinds) == {i \in 1..Len(edits.kinds) : edits.kinds[i] \in kinds}

\* an edited ignorefile was loaded, and nothing else done since
LoadedEdited == pc # "file" /\ dumped = <<>> /\ edits.kinds # <<>>

\* the catalog has the i-th record of the edited ignorefile
HasRecord(i) ==
    \E j \in 1..Len(catalog) :
        /\ catalog[j].key = RecordEntries[i].key
        /\ catalog[j].entry.author = RecordEntries[i].entry.author

\* C3: a record whose fenced block is well-formed but whose anchor line is
\* not found in the source file is dropped on load: of the records of a
\* document without other defects, the catalog has exactly those whose anchor
\* line is found (2 entries for 3 records of which one is unresolvable).
C3_UnresolvableDropped ==
    (/\ LoadedEdited
     /\ edits.pre = "none"
     /\ RecordsOfKind({"ok", "moved", "stale"}) = 1..Len(edits.kinds))
        => /\ pc = "catalog"
           /\ Len(catalog) = Cardinality(RecordsOfKind({"ok", "moved"}))
           /\ \A i \in RecordsOfKind({"ok", "moved"}) : HasRecord(i)
           /\ \A i \in RecordsOfKind({"stale"}) :
                 \A j \in 1..Len(catalog) :
                    catalog[j].entry.author # RecordEntries[i].entry.author

\* the records with a defect for which load skips a record
FaultyKinds == {"no_message", "no_author", "no_date", "no_block", "bad_block", "unclosed"}

\* C8: load never raises for the content of the document; every faulty
\* record is skipped (the catalog has entries of records without defect
\* only), and every well-formed, resolvable record is in the catalog.
C8_FaultyRecordsSkipped ==
    LoadedEdited
        => /\ pc = "catalog"
           /\ \A i \in RecordsOfKind({"ok", "moved"}) : HasRecord(i)
           /\ \A j \in 1..Len(catalog) :
                 \E i \in 1..Len(edits.kinds) :
                    /\ edits.kinds[i] \notin FaultyKinds
                    /\ catalog[j].entry.author = RecordEntries[i].entry.author

(***************************************************************************)
(* dumps on its own: catalogs of up to MaxEntries entries, with and        *)
(* without SourceText, some with equal sort keys.                          *)
(***************************************************************************)
MaxEntries == 3

Authors == <<"e1", "e2", "e3", "e4", "e5">>

\* (msg_id, new_lineno, msg_text, symbol) of the entries; new_lineno 0 is for
\* an entry without SourceText.  <<12, 1>> is "C1", <<12, 1, 0>> is "C10".
DumpsPool ==
    { <<<<12, 1>>, 10, AB(1, 0), "s">>,    <<<<12, 1>>, 2, AB(1, 0), "s">>,
      <<<<12, 1>>, 2, AB(0, 1), "s">>,     <<<<12, 1>>, 2, AB(1, 0), "t">>,
      <<<<12, 1, 0>>, 2, AB(1, 0), "s">>,  <<<<12, 2>>, 2, AB(1, 0), "s">>,
      <<<<12, 1>>, 0, AB(1, 0), "s">>,     <<<<12, 1, 0>>, 0, AB(1, 0), "t">> }

DumpsItem(e, author) ==
    LET srctxt == IF e[2] = 0 THEN None
                  ELSE Some(read_source_text(FileLines("a.py"), e[2], e[2]))
        source_line == IF srctxt = None THEN EmptyText ELSE srctxt[1].source_line
    IN  Item(Key(e[1], "a.py", e[4], e[3], source_line),
             Entry(e[1], "a.py", e[4], e[3], author, "date", srctxt))

DumpsInit ==
    /\ \E n \in 0..MaxEntries : \E es \in [1..n -> DumpsPool] :
          /\ \A i, j \in 1..n : i # j => es[i] # es[j]
          /\ catalog = [i \in 1..n |-> DumpsItem(es[i], Authors[i])]
    /\ DocIdle
    /\ src = <<>> /\ AnchorIdle /\ CacheIdle /\ FindIdle /\ SaveIdle

\* text = dumps(catalog)
Dumps ==
    /\ dumped = <<>>
    /\ dumped' = <<[cat |-> catalog, text |-> dumps(catalog)]>>
    /\ UNCHANGED <<src, anchorVars, cacheVars, catalog, findVars, fs, pc, edits, records, saveVars>>

DumpsNext == Dumps

SpecDumps == DumpsInit /\ [][DumpsNext]_vars

\* a comes before b as a string
StrBefore(a, b) ==
    LET n == Min(Len(a), Len(b))
        differ == {k \in 1..n : a[k] # b[k]}
    IN  IF differ = {} THEN Len(a) < Len(b)
        ELSE LET k == CHOOSE d \in differ : \A d2 \in differ : d <= d2
             IN  a[k] < b[k]

\* entry e1 is rendered before e2 whatever their places in the catalog
RenderedBefore(e1, e2) ==
    \/ StrBefore(e1.msg_id, e2.msg_id)
    \/ /\ e1.msg_id = e2.msg_id
       /\ e1.srctxt[1].new_lineno < e2.srctxt[1].new_lineno
    \/ /\ e1.msg_id = e2.msg_id
       /\ e1.srctxt[1].new_lineno = e2.srctxt[1].new_lineno
       /\ StrBefore(e1.msg_text, e2.msg_text)

\* the places in the catalog of the entries with a SourceText
WithSourceText(cat) == {i \in 1..Len(cat) : cat[i].entry.srctxt # None}

\* how many entries are rendered up to and including the one at place i
RankOf(cat, i) ==
    Cardinality({j \in WithSourceText(cat) :
                    \/ RenderedBefore(cat[j].entry, cat[i].entry)
                    \/ /\ ~RenderedBefore(cat[i].entry, cat[j].entry)
                       /\ j <= i})

\* the values of the author items of a text, in order
AuthorsIn(text) ==
    LET items == SelectSeq(text, LAMBDA l : l.k = "item")
        authors == SelectSeq(items, LAMBDA l : l.key = "author")
    IN  [i \in 1..Len(authors) |-> authors[i].value]

\* C9: dumps renders exactly the entries that have a SourceText, each once,
\* in ascending order of (msg_id as string, new_lineno as number, msg_text
\* as string), entries that tie on all three in the order of the catalog.
C9_DumpsOrder ==
    dumped # <<>> =>
        LET cat == dumped[1].cat
            text == dumped[1].text
            n == Cardinality(WithSourceText(cat))
            place == [r \in 1..n |-> CHOOSE i \in WithSourceText(cat) : RankOf(cat, i) = r]
        IN  /\ \A i \in WithSourceText(cat) : RankOf(cat, i) \in 1..n
            /\ \A i, j \in WithSourceText(cat) : i # j => RankOf(cat, i) # RankOf(cat, j)
            /\ AuthorsIn(text) = [r \in 1..n |-> cat[place[r]].entry.author]
            /\ text = IGNOREFILE_HEADER
                          \o Join([r \in 1..n |-> _dumps_entry(cat[place[r]].entry)])

\* C9 witness: a catalog with an entry without SourceText, in which an entry
\* for line 10 comes before one for line 2 of the same msg_id, was dumped.
C9_Witness_NumericOrder ==
    /\ dumped # <<>>
    /\ \E i \in 1..Len(catalog) : catalog[i].entry.srctxt = None
    /\ \E i, j \in WithSourceText(catalog) :
          /\ i < j
          /\ catalog[i].entry.msg_id = catalog[j].entry.msg_id
          /\ catalog[i].entry.srctxt[1].new_lineno = 10
          /\ catalog[j].entry.srctxt[1].new_lineno = 2

(***************************************************************************)
(* dump step by step, with a process that reads the ignorefile meanwhile.  *)
(* The savers run one after the other; each may be interrupted.            *)
(***************************************************************************)
\* how many lines one write or read system call transfers
ChunkLines == 8

SaveCatalogs ==
    { <<>>, <<Acknowledged("a.py", 6, 6, "w1")>>, <<Acknowledged("b.py", 1, 1, "w2")>> }

SaveInit ==
    /\ \E prev \in SaveCatalogs :
          /\ fs = OneFile(dumps(prev))
          /\ dumped = <<[cat |-> prev, text |-> dumps(prev)]>>
    /\ savers \in [Savers -> {[IdleSaver EXCEPT !.cat = cat] : cat \in SaveCatalogs}]
    /\ reader = IdleReader
    /\ pc = "" /\ edits = NoEdits /\ records = None /\ catalog = <<>>
    /\ src = <<>> /\ AnchorIdle /\ CacheIdle /\ FindIdle

\* no saver but w is between its open and its rename
Alone(w) ==
    \A v \in Savers \ {w} : savers[v].pc \in {"idle", "done", "failed", "crashed"}

\* ignorefile_text = dumps(ignorefile); tmp_path.open(mode="w")
DumpOpen(w) ==
    /\ savers[w].pc = "idle"
    /\ LET ignorefile_text == dumps(savers[w].cat)
           tmp == tmp_path(IgnorefilePath)
           opened == OpenW(fs, tmp)
       IN  /\ fs' = opened
           /\ savers' = [savers EXCEPT ![w] = [@ EXCEPT !.pc = "writing",
                                                        !.text = ignorefile_text,
                                                        !.fd = opened.dir[tmp],
                                                        !.pos = 0]]
           /\ dumped' = Append(dumped, [cat |-> savers[w].cat, text |-> ignorefile_text])
    /\ UNCHANGED <<src, anchorVars, cacheVars, catalog, findVars, pc, edits, records, reader>>

\* the first steps of dump, by a process that saves while no other does
SaveOpen(w) == Alone(w) /\ DumpOpen(w)

\* fobj.write(ignorefile_text): the next chunk reaches the file
SaveWrite(w) ==
    /\ savers[w].pc = "writing"
    /\ savers[w].pos < Len(savers[w].text)
    /\ LET pos == savers[w].pos
           n == Min(ChunkLines, Len(savers[w].text) - pos)
       IN  /\ fs' = WriteAt(fs, savers[w].fd, pos, SubSeq(savers[w].text, pos + 1, pos + n))
           /\ savers' = [savers EXCEPT ![w] = [@ EXCEPT !.pos = pos + n]]
    /\ UNCHANGED <<src, anchorVars, cacheVars, catalog, findVars, pc, dumped, edits, records, reader>>

\* the end of the with block: the file is closed
SaveClose(w) ==
    /\ savers[w].pc = "writing"
    /\ savers[w].pos = Len(savers[w].text)
    /\ savers' = [savers EXCEPT ![w] = [@ EXCEPT !.pc = "closed"]]
    /\ UNCHANGED <<src, anchorVars, cacheVars, catalog, findVars, docVars, reader>>

\* shutil.move(str(tmp_path), str(ignorefile_path)): fails if the temporary
\* file is gone
SaveMove(w) ==
    /\ savers[w].pc = "closed"
    /\ LET tmp == tmp_path(IgnorefilePath)
       IN  IF Exists(fs, tmp)
           THEN /\ fs' = Move(fs, tmp, IgnorefilePath)
                /\ savers' = [savers EXCEPT ![w] = [@ EXCEPT !.pc = "done"]]
           ELSE /\ fs' = fs
                /\ savers' = [savers EXCEPT ![w] = [@ EXCEPT !.pc = "failed"]]
    /\ UNCHANGED <<src, anchorVars, cacheVars, catalog, findVars, pc, dumped, edits, records, reader>>

\* the saving process is interrupted
SaveCrash(w) ==
    /\ savers[w].pc \in {"writing", "closed"}
    /\ savers' = [savers EXCEPT ![w] = [@ EXCEPT !.pc = "crashed"]]
    /\ UNCHANGED <<src, anchorVars, cacheVars, catalog, findVars, docVars, reader>>

\* the reader opens the ignorefile, if there is one
ReaderOpen ==
    /\ reader.pc = "idle"
    /\ IF Exists(fs, IgnorefilePath)
       THEN reader' = [pc |-> "reading", fd |-> fs.dir[IgnorefilePath], pos |-> 0,
                       seen |-> <<>>]
       ELSE reader' = [reader EXCEPT !.pc = "absent"]
    /\ UNCHANGED <<src, anchorVars, cacheVars, catalog, findVars, docVars, savers>>

\* the reader reads the next chunk of the file it has open, or finds its end
ReaderRead ==
    /\ reader.pc = "reading"
    /\ LET data == fs.data[reader.fd]
           n == Min(ChunkLines, Len(data) - reader.pos)
       IN  IF reader.pos < Len(data)
           THEN reader' = [reader EXCEPT
                              !.seen = @ \o SubSeq(data, reader.pos + 1, reader.pos + n),
                              !.pos = @ + n]
           ELSE reader' = [reader EXCEPT !.pc = "done"]
    /\ UNCHANGED <<src, anchorVars, cacheVars, catalog, findVars, docVars, savers>>

SaveNext ==
    \/ \E w \in Savers : SaveOpen(w)
    \/ \E w \in Savers : SaveWrite(w)
    \/ \E w \in Savers : SaveClose(w)
    \/ \E w \in Savers : SaveMove(w)
    \/ \E w \in Savers : SaveCrash(w)
    \/ ReaderOpen
    \/ ReaderRead

SpecSave == SaveInit /\ [][SaveNext]_vars

\* C7: with one dump running at a time, interrupted or not, a reader that
\* opens the ignorefile at any moment reads the complete text that was there
\* before or the complete text of a dump that has renamed its file, never an
\* empty, partial or mixed text; and the content under the ignorefile's name
\* changes only in the step that renames the temporary file.
C7_AtomicSave ==
    /\ [](reader.pc = "done" =>
             \/ reader.seen = dumped[1].text
             \/ \E w \in Savers : savers[w].pc = "done" /\ reader.seen = savers[w].text)
    /\ [][Content(fs', IgnorefilePath) # Content(fs, IgnorefilePath) =>
             \E w \in Savers : savers[w].pc = "closed" /\ savers'[w].pc = "done"]_vars

\* C7 witness: the reader opened the ignorefile before a dump renamed its
\* file and finished after: it read the whole previous text, which is no
\* longer what the ignorefile holds; another dump was interrupted.
C7_Witness_ReadAcrossRename ==
    /\ reader.pc = "done"
    /\ reader.seen = dumped[1].text
    /\ Content(fs, IgnorefilePath) # Some(reader.seen)
    /\ \E w \in Savers : savers[w].pc = "done"
    /\ \E w \in Savers : savers[w].pc = "crashed"

(***************************************************************************)
(* The anchor resolver on its own: a long file in which a few lines hold   *)
(* the searched text, searched from several old line numbers.              *)
(***************************************************************************)
MaxMatches == 2

AnchorText == SrcLine(2, "x", 0)
AnchorLens == {1, 4, 104, 210}
AnchorPositions == {1, 2, 4, 6, 101, 104, 106, 203, 210}
AnchorLinenos == {1, 2, 5, 102, 105, 205, 230, 320}
OldTexts == {AnchorText, [AnchorText EXCEPT !.trail = 1, !.nl = 0]}

\* Every line that does not hold the text holds a look-alike: the same text
\* indented differently, a blank line, or another statement.
AnchorFile(len, at) ==
    [i \in 1..len |->
        IF i \in at THEN (IF i % 2 = 0 THEN AnchorText ELSE SrcLine(2, "x", 1))
        ELSE CASE i % 3 = 0 -> SrcLine(0, "x", 0)
               [] i % 3 = 1 -> SrcLine(0, "", 0)
               [] OTHER     -> SrcLine(2, "y", 0)]

AnchorInit ==
    /\ \E len \in AnchorLens :
       \E at \in SUBSET (AnchorPositions \cap (1..len)) :
          /\ Cardinality(at) <= MaxMatches
          /\ src = AnchorFile(len, at)
    /\ old_source_line \in OldTexts
    /\ old_lineno \in AnchorLinenos
    /\ resolved = None /\ source_text = None
    /\ CacheIdle /\ catalog = <<>> /\ FindIdle /\ DocIdle /\ SaveIdle

Resolve ==
    /\ resolved = None
    /\ \E r \in find_source_text_lineno(src, old_source_line, old_lineno) :
          resolved' = Some(r)
    /\ UNCHANGED <<src, old_source_line, old_lineno, source_text, cacheVars, catalog,
                   findVars, docVars, saveVars>>

AnchorNext == Resolve

SpecAnchor == AnchorInit /\ [][AnchorNext]_vars

\* The lines of the file that equal the searched text once both are stripped
\* of trailing white space.
MatchingLinenos ==
    {n \in 1..Len(src) : Rstrip(src[n]) = Rstrip(old_source_line)}

\* C6: find_source_text_lineno returns a line number n whose line equals
\* old_text after stripping trailing white space from both, such that no
\* matching line is strictly closer to old_lineno than n; it fails with
\* ObsoleteEntry if and only if no line of the file at distance 0..99 from
\* old_lineno matches (old_lineno may lie beyond the end of the file).
C6_NearestMatch ==
    resolved # None =>
        LET r == resolved[1]
            near == {n \in MatchingLinenos : Abs(n - old_lineno) <= 99}
        IN  /\ r.exc \in {"", "ObsoleteEntry"}
            /\ r.exc = "" =>
                  /\ r.val \in MatchingLinenos
                  /\ \A m \in MatchingLinenos :
                        Abs(m - old_lineno) >= Abs(r.val - old_lineno)
            /\ (r.exc = "ObsoleteEntry") <=> (near = {})

\* C6 witness: a match found away from old_lineno, with old_lineno beyond the
\* end of the file.
C6_Witness_ShiftedBeyondEnd ==
    /\ resolved # None
    /\ resolved[1].exc = ""
    /\ old_lineno > Len(src)
    /\ resolved[1].val # old_lineno

(***************************************************************************)
(* The source line cache on its own: any sequence of MaxCalls calls.       *)
(***************************************************************************)
CacheInit ==
    /\ CacheIdle /\ src = <<>> /\ AnchorIdle /\ catalog = <<>> /\ FindIdle
    /\ DocIdle /\ SaveIdle

Call ==
    /\ NCalls < MaxCalls
    /\ \E path \in Paths : read_source_lines(path)
    /\ UNCHANGED <<src, anchorVars, catalog, findVars, docVars, saveVars>>

CacheNext == Call

SpecCache == CacheInit /\ [][CacheNext]_vars

\* C10: a call for a path that is cached returns the very list object stored
\* when the path was read and reads no file (so two successive calls for one
\* path read the file once), and a path is read again only after its item was
\* evicted.
C10_CacheHit ==
    [][ret' # ret =>
          LET path == ret'[1].path
          IN  /\ path \in CachedPaths(SRC_CACHE) =>
                    /\ ret'[1].obj = CacheGet(SRC_CACHE, path)
                    /\ reads' = reads
                    /\ SRC_CACHE' = SRC_CACHE
              /\ (ret # None /\ ret[1].path = path) => reads' = reads
              /\ \A p \in Paths :
                    reads'[p] # reads[p] =>
                        /\ p = path
                        /\ reads'[p] = reads[p] + 1
                        /\ p \notin CachedPaths(SRC_CACHE)
              /\ ret'[1].obj = CacheGet(SRC_CACHE', path)
    ]_vars

\* C10 witness: a call served from the cache after another path was evicted,
\* for a path read only once.
C10_Witness_HitInFullCache ==
    /\ ret # None
    /\ ret[1].hit
    /\ reads[ret[1].path] = 1
    /\ Len(SRC_CACHE) = 3
    /\ \A p \in Paths : reads[p] = 1

\* the items of cache whose path is not p, in their order
CacheWithout(cache, p) == SelectSeq(cache, LAMBDA it : it.path # p)

\* C11: a call for a path that is not cached evicts exactly one item before
\* it inserts when more than 2 paths are cached, and evicts nothing otherwise;
\* the items that stay are not changed; a call for a cached path leaves the
\* cache as it is; the cache never holds more than 3 paths, no path twice,
\* and the path asked for is cached when the call returns.
C11_CacheBound ==
    [][ret' # ret =>
          LET path == ret'[1].path
              before == CachedPaths(SRC_CACHE)
              after == CachedPaths(SRC_CACHE')
          IN  /\ path \in before => SRC_CACHE' = SRC_CACHE
              /\ path \notin before =>
                    /\ SRC_CACHE'[Len(SRC_CACHE')].path = path
                    /\ IF Cardinality(before) > 2
                       THEN \E p \in before :
                               /\ after = (before \ {p}) \cup {path}
                               /\ CacheWithout(SRC_CACHE', path) = CacheWithout(SRC_CACHE, p)
                       ELSE /\ after = before \cup {path}
                            /\ CacheWithout(SRC_CACHE', path) = SRC_CACHE
              /\ Cardinality(after) <= 3
              /\ Len(SRC_CACHE') = Cardinality(after)
              /\ path \in after
    ]_vars

\* C11 witness: a call that read a fourth path into a cache of three, after
\* which three paths are cached and one path that was read is not.
C11_Witness_Evicted ==
    /\ ret # None
    /\ ~ret[1].hit
    /\ Len(SRC_CACHE) = 3
    /\ ret[1].path \in CachedPaths(SRC_CACHE)
    /\ \E p \in Paths : reads[p] > 0 /\ p \notin CachedPaths(SRC_CACHE)

(***************************************************************************)
(* find_entry on its own: catalogs of up to MaxCatalog keys.               *)
(***************************************************************************)
MaxCatalog == 2

\* (msg_text, source_line) of the keys tried
FindTexts ==
    { <<AB(5, 0), AB(5, 0)>>,     <<AB(4, 1), AB(5, 0)>>,   <<AB(3, 2), AB(5, 0)>>,
      <<AB(5, 0), AB(4, 1)>>,     <<AB(4, 0), AB(5, 0)>>,   <<AB(3, 1), AB(5, 0)>>,
      <<AB(20, 0), AB(5, 0)>>,    <<AB(16, 4), AB(5, 0)>>,  <<AB(25, 0), AB(4, 1)>>,
      <<AB(20, 5), AB(4, 1)>>,
      <<AB(0, 0), AB(5, 0)>>,     <<AB(0, 0), AB(4, 1)>>,
      <<AB(5, 0), AB(0, 0)>>,     <<AB(4, 1), AB(0, 0)>> }

FindKey(msg_id, path, symbol, texts) == Key(msg_id, path, symbol, texts[1], texts[2])

SearchKeys == {FindKey(<<1>>, "a.py", "sym", t) : t \in FindTexts}

CatalogKeyPool ==
    SearchKeys
    \cup {FindKey(<<2>>, "a.py", "sym", <<AB(4, 1), AB(5, 0)>>),
          FindKey(<<1>>, "b.py", "sym", <<AB(4, 1), AB(5, 0)>>),
          FindKey(<<1>>, "a.py", "other", <<AB(4, 1), AB(5, 0)>>)}

\* The entry stored under a key: its author tells the entries apart.
FindEntryOf(key, author) ==
    Entry(key.msg_id, key.path, key.symbol, key.msg_text, author, "date", None)

FindInit ==
    /\ \E n \in 0..MaxCatalog :
       \E keys \in [1..n -> CatalogKeyPool] :
          /\ \A i, j \in 1..n : i # j => keys[i] # keys[j]
          /\ catalog = [i \in 1..n |-> Item(keys[i], FindEntryOf(keys[i], i))]
    /\ search_key \in {Some(k) : k \in SearchKeys}
    /\ found = None
    /\ src = <<>> /\ AnchorIdle /\ CacheIdle /\ DocIdle /\ SaveIdle

FindEntry ==
    /\ found = None
    /\ found' = Some(find_entry(catalog, search_key[1]))
    /\ UNCHANGED <<src, anchorVars, cacheVars, catalog, search_key, docVars, saveVars>>

FindNext == FindEntry

SpecFind == FindInit /\ [][FindNext]_vars

SameMessage(a, b) == a.msg_id = b.msg_id /\ a.path = b.path /\ a.symbol = b.symbol

WithinTolerance(a, b) ==
    LET dist == levenshtein(a, b)
    IN  /\ dist <= 4
        /\ 100 * dist <= 20 * Max(Len(a), Len(b))

\* the items of the catalog whose key qualifies for the search key
Qualifying(cat, skey) ==
    {i \in 1..Len(cat) :
        /\ SameMessage(cat[i].key, skey)
        /\ WithinTolerance(cat[i].key.msg_text, skey.msg_text)
        /\ WithinTolerance(cat[i].key.source_line, skey.source_line)}

ExpectedEntry(cat, skey) ==
    IF HasKey(cat, skey) THEN Some(CatalogGet(cat, skey))
    ELSE LET q == Qualifying(cat, skey)
         IN  IF Cardinality(q) = 1 THEN Some(cat[CHOOSE i \in q : TRUE].entry)
             ELSE None

\* C4: for a search key whose message text and source line are not empty,
\* find_entry returns the entry of the search key when the catalog has it;
\* otherwise the one entry that shares (msg_id, path, symbol) and whose
\* message text and source line are each within 4 edits and within 20% of the
\* longer string, and none when no entry or several entries qualify.
C4_FindEntry ==
    (found # None /\ search_key[1].msg_text # <<>> /\ search_key[1].source_line # <<>>)
        => found[1] = Return(ExpectedEntry(catalog, search_key[1]))

\* C4 witness: a candidate within 4 edits but beyond 20% is passed over and
\* the one qualifying candidate is returned.
C4_Witness_UniqueFuzzyMatch ==
    /\ found # None
    /\ search_key[1].msg_text # <<>> /\ search_key[1].source_line # <<>>
    /\ ~HasKey(catalog, search_key[1])
    /\ found[1].exc = "" /\ found[1].val # None
    /\ \E i \in 1..Len(catalog) :
          /\ SameMessage(catalog[i].key, search_key[1])
          /\ levenshtein(catalog[i].key.msg_text, search_key[1].msg_text) <= 4
          /\ i \notin Qualifying(catalog, search_key[1])

\* C5: when both compared strings of a field are empty, the percentage of
\* that field counts as 0%: find_entry returns normally, and returns what the
\* 4 edits / 20% rule gives with that field not disqualifying the candidate.
C5_EmptyFieldsAreZeroPct ==
    found # None =>
        /\ found[1].exc = ""
        /\ found[1] = Return(ExpectedEntry(catalog, search_key[1]))

(***************************************************************************)
(* _iter_entry_values on its own: every document of up to MaxDocLines      *)
(* lines, each one of ParseLines.                                          *)
(***************************************************************************)
MaxDocLines == 5

\* two headers, a line that looks like a header but has no line number, list
\* items (two values for message, one key that is none of the three), a
\* fence, a line of rendered context and a line of running text
ParseLines ==
    { HeaderLine("a.py", Str(3), <<12, 1>>, "sym"),
      HeaderLine("b.py", Str(1), <<12, 2>>, "sym"),
      HeaderLine("a.py", <<>>, <<12, 1>>, "sym"),
      ItemLine("message", "m1"), ItemLine("message", "m2"),
      ItemLine("author", "me"), ItemLine("other", "v"),
      FenceLine,
      CtxLine(TRUE, Str(1), 1, Some(Rstrip(FileLines("b.py")[1]))),
      ProseLine(1) }

ParseInit ==
    /\ \E n \in 0..MaxDocLines : \E doc \in [1..n -> ParseLines] :
          fs = OneFile(doc)
    /\ pc = "file" /\ dumped = <<>> /\ edits = NoEdits /\ records = None
    /\ catalog = <<>>
    /\ src = <<>> /\ AnchorIdle /\ CacheIdle /\ FindIdle /\ SaveIdle

\* list(_iter_entry_values(ignorefile_path))
Parse ==
    /\ pc = "file"
    /\ records' = Some(_iter_entry_values(Content(fs, IgnorefilePath)[1]))
    /\ pc' = "parsed"
    /\ UNCHANGED <<src, anchorVars, cacheVars, catalog, findVars, fs, dumped, edits,
                   saveVars>>

ParseNext == Parse

SpecParse == ParseInit /\ [][ParseNext]_vars

\* The fences of a document pair up in the order they come: a fence with an
\* even number of fences before it opens a block, the next fence closes it.
FencesBefore(lines, j) == Cardinality({i \in 1..(j - 1) : lines[i].k = "fence"})

\* the lines that are no part of a fenced block, closed or not
OutsideFence(lines) ==
    {j \in 1..Len(lines) : lines[j].k # "fence" /\ FencesBefore(lines, j) % 2 = 0}

\* the entry header lines outside fenced blocks
HeaderIdxs(lines) == {j \in OutsideFence(lines) : EntryHeader(lines[j]) # None}

\* the last line of the section of the header at h
SectionEnd(lines, h) ==
    LET later == {j \in HeaderIdxs(lines) : j > h}
    IN  IF later = {} THEN Len(lines)
        ELSE (CHOOSE j \in later : \A j2 \in later : j <= j2) - 1

\* the record of the header at h, made of the lines of its section alone
SectionRecord(lines, h) ==
    LET e == SectionEnd(lines, h)
        items(key) == {j \in OutsideFence(lines) :
                          /\ h < j /\ j <= e
                          /\ ListItem(lines[j]) # None
                          /\ ListItem(lines[j])[1].key = key}
        last(idxs) == CHOOSE j \in idxs : \A j2 \in idxs : j2 <= j
        keys == {key \in {"message", "author", "date"} : items(key) # {}}
        opens == {j \in (h + 1)..e :
                     /\ lines[j].k = "fence"
                     /\ FencesBefore(lines, j) % 2 = 0
                     /\ \E c \in (j + 1)..Len(lines) : lines[c].k = "fence"}
        close(o) == CHOOSE c \in (o + 1)..Len(lines) :
                        /\ lines[c].k = "fence"
                        /\ \A c2 \in (o + 1)..(c - 1) : lines[c2].k # "fence"
        block == IF opens = {} THEN <<>>
                 ELSE "ctx_src_text" :> SubSeq(lines, last(opens), close(last(opens)))
    IN  EntryHeader(lines[h])[1]
            @@ ("ignorefile_lineno" :> Str(h))
            @@ [key \in keys |-> ListItem(lines[last(items(key))])[1].value]
            @@ block

\* one record for each header outside a fenced block, in document order
RECURSIVE SectionRecords(_, _)
SectionRecords(lines, from) ==
    LET later == {j \in HeaderIdxs(lines) : j >= from}
        h == CHOOSE j \in later : \A j2 \in later : j <= j2
    IN  IF later = {} THEN <<>>
        ELSE <<SectionRecord(lines, h)>> \o SectionRecords(lines, h + 1)

\* C12: _iter_entry_values yields one record for each entry header outside a
\* fenced block, in document order; the message, author, date and fenced
\* block of a record are the last ones between its header and the next
\* header, and nothing of a record comes from another section or from the
\* lines before the first header; the lines of a fenced block are stored as
\* they are and never read as headers or list items.
C12_ParserRecords ==
    records # None =>
        records[1] = SectionRecords(Content(fs, IgnorefilePath)[1], 1)

(***************************************************************************)
(* read_source_text on its own: every file of up to MaxFileLines lines,    *)
(* each one of TextLines, and every line of it as the target.              *)
(***************************************************************************)
MaxFileLines == 5

\* "class", "x" and an empty line at indent 0, "def" and "x" at indent 4, "x"
\* at indent 8
TextLines ==
    { SrcLine(0, "class", 0), SrcLine(0, "x", 0), SrcLine(0, "", 0),
      SrcLine(4, "def", 0),   SrcLine(4, "x", 0), SrcLine(8, "x", 0) }

SourceTextInit ==
    /\ \E n \in 1..MaxFileLines : src \in [1..n -> TextLines]
    /\ old_lineno \in {1, 9}
    /\ old_source_line = EmptyText /\ resolved = None /\ source_text = None
    /\ CacheIdle /\ catalog = <<>> /\ FindIdle /\ DocIdle /\ SaveIdle

\* read_source_text(path, new_lineno, old_lineno) for a line of the file
ReadSourceText ==
    /\ source_text = None
    /\ \E new_lineno \in 1..Len(src) :
          source_text' = Some(read_source_text(src, new_lineno, old_lineno))
    /\ UNCHANGED <<src, old_source_line, old_lineno, resolved, cacheVars, catalog,
                   findVars, docVars, saveVars>>

SourceTextNext == ReadSourceText

SpecSourceText == SourceTextInit /\ [][SourceTextNext]_vars

\* the indices from `first` up to the target index of the lines that are not
\* blank, less indented than the target line and begin with def or class
DefCandidates(lines, target_idx, first) ==
    {i \in first..target_idx :
        /\ ~IsBlank(lines[i + 1])
        /\ IndentLvl(lines[i + 1]) < IndentLvl(lines[target_idx + 1])
        /\ FirstToken(lines[i + 1]) \in {"def", "class"}}

\* the SourceText records the nearest candidate among those from index
\* `first` on if it lies before the context window, and no definition else
RecordsNearestDef(st, lines, first) ==
    LET target_idx == st.new_lineno - 1
        start_idx == Max(0, target_idx - 2)
        cands == DefCandidates(lines, target_idx, first)
        d == CHOOSE i \in cands : \A i2 \in cands : i2 <= i
    IN  IF cands # {} /\ d < start_idx
        THEN st.def_line_idx = Some(d) /\ st.def_line = Some(lines[d + 1])
        ELSE st.def_line_idx = None /\ st.def_line = None

\* C13: read_source_text records as def_line_idx and def_line the nearest
\* line at or above the target, the first line of the file (index 0)
\* included, that is not blank, less indented than the target and begins
\* with def or class, if and only if there is such a line and it lies before
\* the start of the context window; otherwise both are None.  Less indented
\* lines that are no definitions do not stop the walk.
C13_DefLine ==
    source_text # None => RecordsNearestDef(source_text[1], src, 0)

(***************************************************************************)
(* Two processes that run dump on one ignorefile at the same time, each    *)
(* with a catalog of its own; every interleaving of their steps.           *)
(***************************************************************************)
ConcurrentInit == SaveInit /\ savers[1].cat # savers[2].cat

ConcurrentNext ==
    \/ \E w \in Savers : DumpOpen(w)
    \/ \E w \in Savers : SaveWrite(w)
    \/ \E w \in Savers : SaveClose(w)
    \/ \E w \in Savers : SaveMove(w)

SpecConcurrent == ConcurrentInit /\ [][ConcurrentNext]_vars

\* the rename of saver w is done in this step
Renamed(w) == savers[w].pc = "closed" /\ savers'[w].pc = "done"

\* C14: when two processes run dump on one ignorefile with different
\* catalogs, in any interleaving of their steps, both calls end without
\* error and the ignorefile holds the complete output of the call whose
\* rename came last: after a rename it holds the text of the call that
\* renamed, and nothing but a rename changes what it holds.
C14_LastWriterWins ==
    /\ [](\A w \in Savers : savers[w].pc # "failed")
    /\ [][\A w \in Savers :
             Renamed(w) => Content(fs', IgnorefilePath) = Some(savers[w].text)]_vars
    /\ [][Content(fs', IgnorefilePath) # Content(fs, IgnorefilePath) =>
             \E w \in Savers : Renamed(w)]_vars

====
